---- MODULE Spec2Model ----
(***************************************************************************)
(* Kubernetes agent API: the chat handlers of main.py (buffered /chat and   *)
(* streamed /chat/stream), the ReAct agent they run (create_react_agent     *)
(* over the tool list k8s_tools), the tool functions of k8s_tools.py and    *)
(* the session store of database.py.                                        *)
(*                                                                          *)
(* Texts are sequences of tokens: an f-string is the concatenation of its   *)
(* literal pieces and its arguments, "x in text" is a contiguous            *)
(* sub-sequence test, and "+=" on texts is \o.                              *)
(***************************************************************************)
EXTENDS Integers, Sequences, FiniteSets, TLC

(***************************************************************************)
(* Bounds of the model.                                                     *)
(***************************************************************************)
\* Tool cycles the agent graph may run in one turn before its step limit
\* (langgraph's recursion_limit, left at its default by main.py) is reached.
MaxCycles == 1
\* Turns appended to one session while it exists, in the runs of the store.
MaxMessages == 2
\* Ticks of the database clock in the runs of the store.
MaxClock == 1
\* Chat requests made for one session id, one after the other.
MaxTurns == 2

(***************************************************************************)
(* Texts.                                                                   *)
(***************************************************************************)
Names == {"nginx-1", "web"}
DefaultNamespace == "default"
Namespaces == {DefaultNamespace, "kube-system"}

RECURSIVE Concat(_)
\* "".join(parts): the concatenation of a sequence of texts
Concat(parts) ==
    IF parts = <<>> THEN <<>> ELSE Head(parts) \o Concat(Tail(parts))

\* phrase in text (Python's substring test, case-sensitive)
Contains(text, phrase) ==
    \E i \in 0..(Len(text) - Len(phrase)) :
        \A j \in 1..Len(phrase) : text[i + j] = phrase[j]

(***************************************************************************)
(* k8s_tools.py: the registry and the tool functions.                       *)
(*                                                                          *)
(* A call of the cluster API client is recorded as [api, name]; what the    *)
(* cluster answers is the input `outcome`:                                  *)
(*   "ok"     the API call returns                                          *)
(*   "404"    it raises ApiException with status 404                        *)
(*   "apierr" it raises ApiException with another status                    *)
(*   "exc"    the body of the try raises an exception that is not an        *)
(*            ApiException (urllib3's MaxRetryError when the API server is  *)
(*            unreachable, AttributeError on an argument of the wrong type) *)
(* A tool returns [raised |-> FALSE, text |-> ..., calls |-> ...] or, when  *)
(* the exception escapes the function, [raised |-> TRUE, ...].              *)
(***************************************************************************)
Outcomes == {"ok", "404", "apierr", "exc"}

Returned(text, calls) == [raised |-> FALSE, text |-> text, calls |-> calls]
Raised(calls) == [raised |-> TRUE, text |-> <<>>, calls |-> calls]
ApiCall(api, name) == [api |-> api, name |-> name]

\* the delete_* functions: the resource type as written in their confirmation
\* prompt, in the phrase they ask for, and the API method they call
DeleteTools ==
    [ delete_kubernetes_pod        |-> [prompt |-> "pod",        phrase |-> "pod",        namespaced |-> TRUE,  api |-> "delete_namespaced_pod"],
      delete_kubernetes_namespace  |-> [prompt |-> "namespace",  phrase |-> "namespace",  namespaced |-> FALSE, api |-> "delete_namespace"],
      delete_kubernetes_deployment |-> [prompt |-> "deployment", phrase |-> "deployment", namespaced |-> TRUE,  api |-> "delete_namespaced_deployment"],
      delete_kubernetes_service    |-> [prompt |-> "service",    phrase |-> "service",    namespaced |-> TRUE,  api |-> "delete_namespaced_service"],
      delete_kubernetes_secret     |-> [prompt |-> "Secret",     phrase |-> "secret",     namespaced |-> TRUE,  api |-> "delete_namespaced_secret"],
      delete_kubernetes_ingress    |-> [prompt |-> "Ingress",    phrase |-> "ingress",    namespaced |-> TRUE,  api |-> "delete_namespaced_ingress"],
      delete_kubernetes_pvc        |-> [prompt |-> "PVC",        phrase |-> "pvc",        namespaced |-> TRUE,  api |-> "delete_namespaced_persistent_volume_claim"],
      delete_kubernetes_hpa        |-> [prompt |-> "HPA",        phrase |-> "hpa",        namespaced |-> TRUE,  api |-> "delete_namespaced_horizontal_pod_autoscaler"] ]

\* the create_* functions and the API method each calls
CreateTools ==
    [ create_kubernetes_pod        |-> "create_namespaced_pod",
      create_kubernetes_namespace  |-> "create_namespace",
      create_kubernetes_deployment |-> "create_namespaced_deployment",
      create_kubernetes_service    |-> "create_namespaced_service",
      create_kubernetes_secret     |-> "create_namespaced_secret",
      create_kubernetes_ingress    |-> "create_namespaced_ingress",
      create_kubernetes_pvc        |-> "create_namespaced_persistent_volume_claim",
      create_kubernetes_hpa        |-> "create_namespaced_horizontal_pod_autoscaler" ]

\* the get_* functions that answer a 404 with "... not found" (has404), and the
\* list_* / get_* functions that have the one "Error ...: {e}" branch
ReadTools ==
    [ list_kubernetes_namespaces       |-> [api |-> "list_namespace",                                   has404 |-> FALSE],
      get_kubernetes_pod               |-> [api |-> "read_namespaced_pod",                              has404 |-> TRUE],
      list_kubernetes_pods             |-> [api |-> "list_namespaced_pod",                              has404 |-> FALSE],
      get_kubernetes_pod_logs          |-> [api |-> "read_namespaced_pod_log",                          has404 |-> TRUE],
      get_kubernetes_events            |-> [api |-> "list_namespaced_event",                            has404 |-> FALSE],
      get_kubernetes_deployment_status |-> [api |-> "read_namespaced_deployment_status",                has404 |-> TRUE],
      get_kubernetes_config_map        |-> [api |-> "read_namespaced_config_map",                       has404 |-> TRUE],
      get_kubernetes_secret            |-> [api |-> "read_namespaced_secret",                           has404 |-> TRUE],
      get_kubernetes_ingress           |-> [api |-> "read_namespaced_ingress",                          has404 |-> TRUE],
      get_kubernetes_node_status       |-> [api |-> "read_node_status",                                 has404 |-> TRUE],
      get_kubernetes_cluster_status    |-> [api |-> "list_node",                                        has404 |-> FALSE],
      get_kubernetes_hpa_status        |-> [api |-> "read_namespaced_horizontal_pod_autoscaler_status", has404 |-> TRUE],
      list_kubernetes_hpas             |-> [api |-> "list_namespaced_horizontal_pod_autoscaler",        has404 |-> FALSE],
      list_kubernetes_services         |-> [api |-> "list_namespaced_service",                          has404 |-> FALSE],
      list_kubernetes_deployments      |-> [api |-> "list_namespaced_deployment",                       has404 |-> FALSE],
      get_kubernetes_pvc               |-> [api |-> "read_namespaced_persistent_volume_claim",          has404 |-> TRUE],
      list_kubernetes_pvcs             |-> [api |-> "list_namespaced_persistent_volume_claim",          has404 |-> FALSE],
      list_kubernetes_network_policies |-> [api |-> "list_namespaced_network_policy",                   has404 |-> FALSE] ]

\* the list k8s_tools, by name
k8s_tools ==
    DOMAIN DeleteTools \cup DOMAIN CreateTools \cup DOMAIN ReadTools
        \cup {"scale_kubernetes_deployment", "describe_kubernetes_resource"}

\* the operations that change the cluster: every create_*, delete_* and scale
Mutating ==
    DOMAIN DeleteTools \cup DOMAIN CreateTools \cup {"scale_kubernetes_deployment"}

\* the API methods that change the cluster
MutatingApis ==
    {DeleteTools[t].api : t \in DOMAIN DeleteTools}
        \cup {CreateTools[t] : t \in DOMAIN CreateTools}
        \cup {"patch_namespaced_deployment_scale"}

\* 'yes, delete {type} {name}', the phrase a delete_* function asks for
ConfirmationPhrase(tool, name) ==
    <<"yes,", "delete", DeleteTools[tool].phrase, name>>

\* f"Confirmation required to delete {type} '{name}' [in namespace '{namespace}'].
\*   Please confirm by saying 'yes, delete {type} {name}'."
ConfirmationPrompt(tool, name, namespace) ==
    <<"Confirmation required", "to delete", DeleteTools[tool].prompt, "'", name, "'">>
        \o (IF DeleteTools[tool].namespaced
              THEN <<"in namespace", "'", namespace, "'">> ELSE <<>>)
        \o <<".", "Please confirm by saying", "'">>
        \o ConfirmationPhrase(tool, name)
        \o <<"'", ".">>

\* a delete whose prompt changes with what the cluster would answer
delete_kubernetes_varying(tool, args, outcome) ==
    IF ~args.confirm
      THEN Returned(ConfirmationPrompt(tool, args.name, args.namespace) \o <<outcome>>, <<>>)
      ELSE Raised(<<ApiCall(DeleteTools[tool].api, args.name)>>)

\* a delete that does not look at confirm
delete_kubernetes_unasked(tool, args, outcome) ==
    Returned(<<DeleteTools[tool].prompt, args.name, "deleted successfully">>,
             <<ApiCall(DeleteTools[tool].api, args.name)>>)

\* delete_kubernetes_pod and the seven functions of the same shape
delete_kubernetes(tool, args, outcome) ==
    IF ~args.confirm
      THEN Returned(ConfirmationPrompt(tool, args.name, args.namespace), <<>>)
      ELSE LET calls == <<ApiCall(DeleteTools[tool].api, args.name)>> IN
           CASE outcome = "ok" ->
                    Returned(<<DeleteTools[tool].prompt, args.name, "deleted successfully">>, calls)
             [] outcome = "404" ->
                    Returned(<<DeleteTools[tool].prompt, args.name, "not found">>, calls)
             [] outcome = "apierr" ->
                    Returned(<<"Error deleting", DeleteTools[tool].prompt, args.name, "ApiException">>, calls)
             [] OTHER -> Raised(calls)

\* create_kubernetes_pod and the seven functions of the same shape; the manifest is
\* built inside the try, where create_kubernetes_secret encodes its data values
create_kubernetes(tool, args, outcome) ==
    LET calls == <<ApiCall(CreateTools[tool], args.name)>> IN
    CASE outcome = "ok" ->
             Returned(<<tool, args.name, "created successfully">>, calls)
      [] outcome \in {"404", "apierr"} ->
             Returned(<<"Error creating", tool, args.name, "ApiException">>, calls)
      [] OTHER -> Raised(calls)

\* scale_kubernetes_deployment
scale_kubernetes_deployment(args, outcome) ==
    IF args.replicas < 0
      THEN Returned(<<"Error: Replicas must be a non-negative integer.">>, <<>>)
      ELSE LET calls == <<ApiCall("patch_namespaced_deployment_scale", args.name)>> IN
           CASE outcome = "ok" ->
                    Returned(<<"Deployment", args.name, "scaled to", "<replicas>", "replicas successfully">>, calls)
             [] outcome = "404" ->
                    Returned(<<"Deployment", args.name, "not found">>, calls)
             [] outcome = "apierr" ->
                    Returned(<<"Error scaling", "deployment", args.name, "ApiException">>, calls)
             [] OTHER -> Raised(calls)

\* a read that asks for confirmation first, as the delete_* functions do
read_kubernetes_confirmed(tool, args, outcome) ==
    IF ~args.confirm
      THEN Returned(<<"Confirmation required", "Please confirm by saying">>, <<>>)
      ELSE Returned(<<tool, args.name, "<data>">>, <<ApiCall(ReadTools[tool].api, args.name)>>)

\* the list_* and get_* functions; "<data>" stands for what the cluster returned
read_kubernetes(tool, args, outcome) ==
    LET calls == <<ApiCall(ReadTools[tool].api, args.name)>> IN
    CASE outcome = "ok" ->
             Returned(<<tool, args.name, "<data>">>, calls)
      [] outcome = "404" /\ ReadTools[tool].has404 ->
             Returned(<<tool, args.name, "not found">>, calls)
      [] outcome \in {"404", "apierr"} ->
             Returned(<<"Error", tool, args.name, "ApiException">>, calls)
      [] OTHER -> Raised(calls)

\* describe_kubernetes_resource, with resource_type "pod"; its try has a second
\* handler, except Exception
describe_kubernetes_resource(args, outcome) ==
    LET calls == <<ApiCall("read_namespaced_pod", args.name)>> IN
    CASE outcome = "ok" ->
             Returned(<<"Description of", "pod", args.name, "<data>">>, calls)
      [] outcome = "404" ->
             Returned(<<"pod", args.name, "not found">>, calls)
      [] outcome = "apierr" ->
             Returned(<<"Error describing", "pod", args.name, "ApiException">>, calls)
      [] OTHER ->
             Returned(<<"An unexpected error occurred while describing", "pod", args.name>>, calls)

\* a dispatch that calls the function again after it has run (a retry)
InvokeToolTwice(tool, args, outcome) ==
    LET r == CASE tool \in DOMAIN DeleteTools -> delete_kubernetes(tool, args, outcome)
               [] tool \in DOMAIN CreateTools -> create_kubernetes(tool, args, outcome)
               [] tool \in DOMAIN ReadTools   -> read_kubernetes(tool, args, outcome)
               [] tool = "scale_kubernetes_deployment" -> scale_kubernetes_deployment(args, outcome)
               [] OTHER -> describe_kubernetes_resource(args, outcome)
    IN  [r EXCEPT !.calls = r.calls \o r.calls]

\* calling the function of k8s_tools named `tool`
InvokeTool(tool, args, outcome) ==
    CASE tool \in DOMAIN DeleteTools -> delete_kubernetes(tool, args, outcome)
      [] tool \in DOMAIN CreateTools -> create_kubernetes(tool, args, outcome)
      [] tool \in DOMAIN ReadTools   -> read_kubernetes(tool, args, outcome)
      [] tool = "scale_kubernetes_deployment" -> scale_kubernetes_deployment(args, outcome)
      [] OTHER -> describe_kubernetes_resource(args, outcome)

\* the arguments the Oracle can put in a call
ToolArgs ==
    [name : Names, namespace : Namespaces, confirm : BOOLEAN, replicas : {-1, 3}]

(***************************************************************************)
(* database.py: the session store.  store maps each existing session id to *)
(* its ChatSession row and the ChatMessage rows of the session, in the      *)
(* order they were inserted.                                                *)
(***************************************************************************)
VARIABLES
    store,          \* chat_history.db
    now,            \* the database clock behind func.now()
    dbCall,         \* the last call made to the store directly, with its answer
    appended        \* for each session, the turns appended to it since it began

dbVars == <<dbCall, appended>>

\* a row that keeps what the tools answered under a role of its own
ChatMessageOfTools(role, content, t) ==
    [role |-> IF role = "assistant" THEN "tool" ELSE role, content |-> content, created_at |-> t]

ChatMessage(role, content, t) == [role |-> role, content |-> content, created_at |-> t]

RECURSIVE InsertBeforeEqual(_, _)
\* m placed before the rows of the same created_at (a sort that is not stable)
InsertBeforeEqual(sorted, m) ==
    IF sorted = <<>> THEN <<m>>
    ELSE IF Head(sorted).created_at < m.created_at
           THEN <<Head(sorted)>> \o InsertBeforeEqual(Tail(sorted), m)
           ELSE <<m>> \o sorted

RECURSIVE InsertByCreatedAt(_, _)
\* m placed after every row whose created_at is not greater (a stable insertion)
InsertByCreatedAt(sorted, m) ==
    IF sorted = <<>> THEN <<m>>
    ELSE IF Head(sorted).created_at <= m.created_at
           THEN <<Head(sorted)>> \o InsertByCreatedAt(Tail(sorted), m)
           ELSE <<m>> \o sorted

RECURSIVE SortedByCreatedAt(_)
\* sorted(rows, key=lambda m: m.created_at), which is stable
SortedByCreatedAt(rows) ==
    IF rows = <<>> THEN <<>>
    ELSE InsertByCreatedAt(SortedByCreatedAt(SubSeq(rows, 1, Len(rows) - 1)), rows[Len(rows)])

\* a read whose query is not narrowed to the session: the rows of another
\* session come with those of the session asked for
get_session_history_of_all(st, session_id) ==
    IF session_id \notin DOMAIN st THEN <<>>
    ELSE LET others == DOMAIN st \ {session_id}
             rows == IF others = {} THEN st[session_id].messages
                     ELSE st[session_id].messages \o st[CHOOSE s \in others : TRUE].messages
         IN  [i \in 1..Len(rows) |-> [role |-> rows[i].role, content |-> rows[i].content]]

\* get_session_history(db, session_id): [{"role", "content"}] ordered by created_at
get_session_history(st, session_id) ==
    IF session_id \notin DOMAIN st THEN <<>>
    ELSE LET rows == SortedByCreatedAt(st[session_id].messages) IN
         [i \in 1..Len(rows) |-> [role |-> rows[i].role, content |-> rows[i].content]]

\* a write that inserts a ChatSession row on every call
add_message_to_new_session(st, session_id, role, content, t) ==
    [s \in DOMAIN st \cup {session_id} |->
        IF s = session_id
          THEN [created_at |-> t, messages |-> <<ChatMessage(role, content, t)>>]
          ELSE st[s]]

\* a write that puts the new row in front of the rows of the session
add_message_in_front(st, session_id, role, content, t) ==
    IF session_id \in DOMAIN st
      THEN [st EXCEPT ![session_id].messages = <<ChatMessage(role, content, t)>> \o @]
      ELSE st @@ (session_id :> [created_at |-> t,
                                 messages |-> <<ChatMessage(role, content, t)>>])

\* add_message_to_session(db, session_id, role, content): the store after the commit
add_message_to_session(st, session_id, role, content, t) ==
    IF session_id \in DOMAIN st
      THEN [st EXCEPT ![session_id].messages = Append(@, ChatMessage(role, content, t))]
      ELSE st @@ (session_id :> [created_at |-> t,
                                 messages |-> <<ChatMessage(role, content, t)>>])

\* a delete that answers without removing anything
delete_session_kept(st, session_id) ==
    [store |-> st, ok |-> session_id \in DOMAIN st]

\* delete_session(db, session_id): the store after the commit and the answer; the
\* ChatMessage rows go with the ChatSession row (cascade="all, delete-orphan")
delete_session(st, session_id) ==
    IF session_id \in DOMAIN st
      THEN [store |-> [s \in DOMAIN st \ {session_id} |-> st[s]], ok |-> TRUE]
      ELSE [store |-> st, ok |-> FALSE]

(***************************************************************************)
(* main.py: one chat request, served against the store as earlier requests *)
(* left it.                                                                 *)
(*                                                                          *)
(* agent = create_react_agent(model=llm, tools=k8s_tools, prompt=...) is    *)
(* langgraph's prebuilt graph: the "agent" node consults the model with the *)
(* messages so far; a reply that carries tool calls goes to the "tools"     *)
(* node, which calls the named functions of k8s_tools and appends one       *)
(* ToolMessage per call, in the order of the calls, and hands back to the   *)
(* "agent" node; a reply without tool calls ends the run.  Nothing in the   *)
(* graph or in main.py looks at the conversation before a tool is called:   *)
(* the deletion rule is a sentence of the prompt given to the model.        *)
(***************************************************************************)
VARIABLES
    pc,             \* "idle", "agent", "tools", "finish", "done", "failed", "abandoned"
    path,           \* "buffered" (chat_invoke) or "stream" (chat_stream)
    x_api_key,      \* the x-api-key header of the last request
    supplied,       \* chat_request.session_id was given
    oracle,         \* how many tool calls the model serving the request puts in a reply
    session_id,     \* session_id of the request
    before,         \* get_session_history of the session when the request arrived
    history,        \* the history read by the handler and given to the agent
    messages,       \* the agent's messages: history followed by this run's
    todo,           \* tool calls of the last reply, each pending or with its result
    cycle,          \* replies with tool calls accepted in this run
    step_limit_hit, \* the graph replaced a reply because its step limit was reached
    failure,        \* "", "oracle" or "tool": what ended the run with an exception
    invoked,        \* tool calls the tools node has dispatched in this run
    clusterCalls,   \* cluster API calls made in this run
    outq,           \* messages streamed by the graph and not yet read by stream_tokens
    produced,       \* contents streamed by the graph in this run, in order
    full_response,  \* stream_tokens' accumulator
    events,         \* what the streamed response has carried so far
    response,       \* the HTTP answer of chat_invoke
    toolCall,       \* a direct call of a function of k8s_tools: name, arguments, outcome
    toolResult      \* and what it returned

turnVars ==
    <<pc, path, x_api_key, supplied, oracle, session_id, before, history, messages, todo, cycle,
      step_limit_hit, failure, invoked, clusterCalls, outq, produced, full_response, events, response>>
toolVars == <<toolCall, toolResult>>
vars == <<store, now, dbVars, turnVars, toolVars>>

HumanMessage(content) ==
    [type |-> "human", content |-> content, tool_calls |-> <<>>, tool_call_id |-> 0]
AIMessage(content, calls) ==
    [type |-> "ai", content |-> content, tool_calls |-> calls, tool_call_id |-> 0]
ToolMessage(content, id) ==
    [type |-> "tool", content |-> content, tool_calls |-> <<>>, tool_call_id |-> id]

\* {"role", "content"} dictionaries as the graph's messages
AsMessages(hist) ==
    [i \in 1..Len(hist) |->
        IF hist[i].role = "user" THEN HumanMessage(hist[i].content)
                                 ELSE AIMessage(hist[i].content, <<>>)]

(***************************************************************************)
(* Inputs: what clients send and what the model and the cluster answer.     *)
(***************************************************************************)
\* chat_request.message
UserMessages ==
    { <<"delete", "pod", "nginx-1", "in", "default">>,
      <<"yes,", "delete", "pod", "nginx-1">> }

\* a session id a client supplies; str(uuid.uuid4()) is a fresh id per request
SuppliedId == <<"s1">>
GeneratedId == <<"uuid4">>

\* text of a reply of the model, token by token
OracleTexts == { <<>>, <<"Let me", "check">> }

\* tool calls the model proposes
OracleCalls ==
    { [name |-> "delete_kubernetes_pod",
       args |-> [name |-> "nginx-1", namespace |-> DefaultNamespace, confirm |-> c, replicas |-> 3]]
        : c \in BOOLEAN }
    \cup
    { [name |-> t,
       args |-> [name |-> "nginx-1", namespace |-> DefaultNamespace, confirm |-> FALSE, replicas |-> 3]]
        : t \in {"list_kubernetes_namespaces"} }

\* a reply of the model that carries two tool calls: the namespaces are to be
\* listed and the deletion of the pod is asked for
OracleCallPairs ==
    { << [name |-> "list_kubernetes_namespaces",
          args |-> [name |-> "nginx-1", namespace |-> DefaultNamespace,
                    confirm |-> FALSE, replicas |-> 3]],
         [name |-> "delete_kubernetes_pod",
          args |-> [name |-> "nginx-1", namespace |-> DefaultNamespace,
                    confirm |-> FALSE, replicas |-> 3]] >> }

\* the tool calls of one reply of the model: none (a final answer), or one call
\* with a model that calls one tool at a time, or two with a model that makes
\* parallel tool calls
OracleProposals ==
    [single   |-> { <<>> } \cup { <<c>> : c \in OracleCalls },
     parallel |-> { <<>> } \cup OracleCallPairs]

\* what the cluster answers to the calls of a run
ClusterOutcomes == {"ok", "apierr", "exc"}

\* the store when the request arrives: empty, or holding session "s1" as an
\* earlier request left it (the request and the assistant's answer to it)
PriorStores ==
    { <<>> } \cup
    { add_message_to_session(
          add_message_to_session(<<>>, SuppliedId, "user", h[1], 0),
          SuppliedId, "assistant", h[2], 0) :
        h \in { \* a deletion asked for, answered with the tool's confirmation prompt
                << <<"delete", "pod", "nginx-1", "in", "default">>,
                   ConfirmationPrompt("delete_kubernetes_pod", "nginx-1", DefaultNamespace) >> } }

\* the reply the graph returns in place of one with tool calls at its step limit
StepLimitText == <<"Sorry, need more steps to process this request.">>

\* what the tools node writes for a tool whose exception it handles
ToolErrorText == <<"Error:", "exception", "Please fix your mistakes.">>

(***************************************************************************)
(* chat_invoke, after the agent has returned: the scan of result["messages"]*)
(***************************************************************************)
\* tool_call_id_map.get(id, "unknown_tool")
ToolNameOf(idmap, id) == IF id \in DOMAIN idmap THEN idmap[id] ELSE "unknown_tool"

RECURSIVE ScanCalls(_, _)
\* the inner loop over the tool calls of one AIMessage
ScanCalls(calls, acc) ==
    IF calls = <<>> THEN acc
    ELSE LET call == Head(calls) IN
         ScanCalls(Tail(calls),
            [acc EXCEPT
                !.tools_info = Append(@, [name |-> call.name, args |-> call.args]),
                !.tool_call_id_map = (call.id :> call.name) @@ @])

RECURSIVE ScanMessages(_, _)
\* the loop over result["messages"], which holds the history too
ScanMessages(msgs, acc) ==
    IF msgs = <<>> THEN acc
    ELSE LET msg == Head(msgs) IN
         ScanMessages(Tail(msgs),
            CASE msg.type = "ai" ->
                     ScanCalls(msg.tool_calls,
                         IF msg.content # <<>>
                           THEN [acc EXCEPT !.final_response = msg.content]
                           ELSE acc)
              [] msg.type = "tool" ->
                     [acc EXCEPT !.tool_responses =
                         Append(@, [name |-> ToolNameOf(acc.tool_call_id_map, msg.tool_call_id),
                                    response |-> msg.content])]
              [] OTHER -> acc)

\* final_response, tools_info, tool_responses and tool_call_id_map after the loop
Scan(msgs) ==
    ScanMessages(msgs, [final_response |-> <<>>, tools_info |-> <<>>,
                        tool_responses |-> <<>>, tool_call_id_map |-> <<>>])

\* the text chat_invoke answers with for the agent's messages
final_response(msgs) == Scan(msgs).final_response

NoResponse == [status |-> 0]
\* what the exception handlers answer
ErrorResponse == [status |-> 500]
\* ChatResponse(session_id, response, tools_info, tool_response)
ChatResponse(sid, text, info, responses) ==
    [status |-> 200, session_id |-> sid, response |-> text,
     tools_info |-> info, tool_response |-> responses]

(***************************************************************************)
(* chat_stream: the events of the streamed response                         *)
(***************************************************************************)
\* f"data: {json.dumps({'session_id': session_id})}\n\n"
SessionEvent(sid) == [kind |-> "session", session_id |-> sid, content |-> <<>>]
\* f"data: {content}\n\n"
TextEvent(content) == [kind |-> "text", session_id |-> <<>>, content |-> content]

\* a stream that starts with the text and does not announce the session
stream_tokens_start_silent(sid) == <<>>

\* stream_tokens before its loop over agent.astream
stream_tokens_start(sid) == <<SessionEvent(sid)>>

\* a pass of the loop that puts the new fragment in front of the text so far
stream_tokens_step_prepend(acc, evs, content) ==
    [full_response |-> content \o acc, events |-> Append(evs, TextEvent(content))]

\* one pass of the loop of stream_tokens: full_response and events after it
stream_tokens_step(acc, evs, content) ==
    [full_response |-> acc \o content, events |-> Append(evs, TextEvent(content))]

\* the chunks agent.astream(stream_mode="messages") yields for a reply of the model
ReplyChunks(text) == [i \in 1..Len(text) |-> <<text[i]>>]

(***************************************************************************)
(* The handlers and the agent's run, step by step.                          *)
(***************************************************************************)
Running == {"agent", "tools", "finish"}
Ended == {"done", "failed", "abandoned"}

\* what a step of the run leaves alone
requestVars == <<path, x_api_key, supplied, oracle, session_id, before, history>>

\* config.ADMIN_API_KEY and config.USER_API_KEY
ADMIN_API_KEY == "admin-key"
USER_API_KEY == "user-key"
\* the request carries no x-api-key header
NoKey == "no key"
ApiKeys == {ADMIN_API_KEY, USER_API_KEY, "wrong-key", NoKey}

\* a check that lets every key in
verify_api_key_open(x) == 200

\* verify_api_key(x_api_key): 401 unless the key is one of the two of config
verify_api_key(x) ==
    IF x \notin {ADMIN_API_KEY, USER_API_KEY} THEN 401 ELSE 200

\* the chat requests: the holder of the admin key goes on in its session, the
\* holder of the user key starts a new one; has_message is FALSE for a body
\* without "message"
ChatRequests ==
    { r \in [x_api_key : ApiKeys, supplied : BOOLEAN, has_message : BOOLEAN] :
        /\ r.x_api_key = ADMIN_API_KEY => r.supplied
        /\ r.x_api_key = USER_API_KEY => ~r.supplied }

\* what FastAPI does with a request before it calls the handler: Header(...) is
\* required (422), Depends(verify_api_key) is called (401), and the body is
\* validated as a ChatRequest (422); 200 stands for "the handler is called"
Admission(r) ==
    CASE r.x_api_key = NoKey -> 422
      [] verify_api_key(r.x_api_key) # 200 -> verify_api_key(r.x_api_key)
      [] ~r.has_message -> 422
      [] OTHER -> 200

\* session_id = chat_request.session_id or str(uuid.uuid4())
RequestSessionId(sup) == IF sup THEN SuppliedId ELSE GeneratedId

\* the first lines of chat_invoke and of chat_stream: the user message is stored,
\* the history is read back and handed to the agent
Arrive(p, sup, message) ==
    LET sid == RequestSessionId(sup)
        st  == add_message_to_session(store, sid, "user", message, now)
    IN  /\ pc = "idle"
        /\ path' = p
        /\ supplied' = sup
        /\ oracle' \in DOMAIN OracleProposals
        /\ session_id' = sid
        /\ before' = get_session_history(store, sid)
        /\ store' = st
        /\ history' = get_session_history(st, sid)
        /\ messages' = AsMessages(get_session_history(st, sid))
        /\ pc' = "agent"
        /\ events' = IF p = "stream" THEN stream_tokens_start(sid) ELSE <<>>
        /\ response' = NoResponse
        /\ UNCHANGED <<now, todo, cycle, step_limit_hit, failure, invoked, clusterCalls,
                       outq, produced, full_response, toolVars, dbVars>>

\* POST /chat up to "await agent.ainvoke"
chat_invoke ==
    \E r \in ChatRequests, message \in UserMessages :
        /\ Admission(r) = 200
        /\ x_api_key' = r.x_api_key
        /\ Arrive("buffered", r.supplied, message)

\* POST /chat/stream up to the first "yield" of stream_tokens
chat_stream ==
    \E r \in ChatRequests, message \in UserMessages :
        /\ Admission(r) = 200
        /\ x_api_key' = r.x_api_key
        /\ Arrive("stream", r.supplied, message)

\* a request to /chat or /chat/stream that FastAPI answers before the handler is
\* called: HTTPException(401) of verify_api_key, or 422 of the validation
request_rejected ==
    /\ pc = "idle"
    /\ \E r \in ChatRequests :
          /\ Admission(r) # 200
          /\ x_api_key' = r.x_api_key
          /\ response' = [status |-> Admission(r)]
    /\ UNCHANGED <<store, now, pc, path, supplied, oracle, session_id, before, history,
                   messages, todo, cycle, step_limit_hit, failure, invoked, clusterCalls,
                   outq, produced, full_response, events, toolVars, dbVars>>

\* ids of the tool calls of a reply: the calls of a run are numbered in order
WithIds(calls) ==
    [i \in 1..Len(calls) |->
        [id |-> Len(invoked) + i, name |-> calls[i].name, args |-> calls[i].args]]

\* the graph streams what its nodes produce
Streamed(chunks) ==
    /\ outq' = IF path = "stream" THEN outq \o chunks ELSE outq
    /\ produced' = IF path = "stream" THEN produced \o chunks ELSE produced

\* a graph without a step limit
NoStepLimit(c) == FALSE

\* the graph's step limit, counted here in tool cycles: a reply with tool calls
\* that the remaining steps cannot serve is replaced by StepLimitText
StepLimit(c) == c >= MaxCycles

\* the "agent" node: the model answers with a text and, possibly, tool calls
AgentStep ==
    /\ pc = "agent"
    /\ outq = <<>>
    /\ \E text \in OracleTexts, calls \in OracleProposals[oracle] :
          IF calls = <<>>
            THEN \* a final answer: the run ends
                 /\ messages' = Append(messages, AIMessage(text, <<>>))
                 /\ Streamed(ReplyChunks(text))
                 /\ pc' = "finish"
                 /\ UNCHANGED <<todo, cycle, step_limit_hit>>
          ELSE IF StepLimit(cycle)
            THEN \* the step limit: the reply is replaced, the run ends; the text
                 \* of the replaced reply was streamed as it was generated, and
                 \* the replacing message may or may not be streamed
                 /\ messages' = Append(messages, AIMessage(StepLimitText, <<>>))
                 /\ \E shown \in BOOLEAN :
                       Streamed(ReplyChunks(text)
                                  \o (IF shown THEN <<StepLimitText>> ELSE <<>>))
                 /\ pc' = "finish"
                 /\ step_limit_hit' = TRUE
                 /\ UNCHANGED <<todo, cycle>>
            ELSE /\ messages' = Append(messages, AIMessage(text, WithIds(calls)))
                 /\ Streamed(ReplyChunks(text))
                 /\ todo' = [i \in 1..Len(calls) |->
                               [call |-> WithIds(calls)[i], state |-> "pending", text |-> <<>>]]
                 /\ cycle' = cycle + 1
                 /\ pc' = "tools"
                 /\ UNCHANGED step_limit_hit
    /\ UNCHANGED <<store, now, requestVars, failure, invoked, clusterCalls,
                   full_response, events, response, toolVars, dbVars>>

\* the write done however the generator ends (as in a finally block)
stream_tokens_close_always(st, sid, acc, completed) ==
    IF acc # <<>>
      THEN add_message_to_session(st, sid, "assistant", acc, now)
      ELSE st

\* what stream_tokens has written to the store when it ends: the write is the
\* last statement of the generator, reached only when the loop has run out
stream_tokens_close(st, sid, acc, completed) ==
    IF completed /\ acc # <<>>
      THEN add_message_to_session(st, sid, "assistant", acc, now)
      ELSE st

\* a failure of the run that is swallowed: the turn ends as a normal one
RunFailsSwallowed(why) ==
    /\ pc' = "done"
    /\ failure' = why
    /\ response' = IF path = "buffered"
                     THEN ChatResponse(session_id, <<>>, <<>>, <<>>)
                     ELSE response
    /\ store' = store

\* an exception leaves agent.ainvoke (chat_invoke answers 500) or agent.astream
\* (the generator ends with it)
RunFails(why) ==
    /\ pc' = "failed"
    /\ failure' = why
    /\ response' = IF path = "buffered" THEN ErrorResponse ELSE response
    /\ store' = IF path = "stream"
                  THEN stream_tokens_close(store, session_id, full_response, FALSE)
                  ELSE store

\* the model cannot be reached
OracleFails ==
    /\ pc = "agent"
    /\ outq = <<>>
    /\ RunFails("oracle")
    /\ UNCHANGED <<now, requestVars, messages, todo, cycle, step_limit_hit, invoked,
                   clusterCalls, outq, produced, full_response, events, toolVars, dbVars>>

\* the state of a call of the tools node after its function has run
Ran(entry, r) ==
    [entry EXCEPT !.state = IF r.raised THEN "raised" ELSE "returned",
                  !.text  = r.text]

\* the ToolMessages of the tools node, one per call, in the order of the calls
ToolMessages(entries) ==
    [i \in 1..Len(entries) |->
        ToolMessage(IF entries[i].state = "raised" THEN ToolErrorText ELSE entries[i].text,
                    entries[i].call.id)]

\* the "tools" node: the functions of the calls of the last reply run (each once,
\* together); when all have ended the ToolMessages are appended, or the
\* exception of a tool leaves the run.  Whether the node turns a tool's exception
\* into a ToolMessage is its handle_tool_errors setting, which main.py leaves to
\* the installed langgraph: either can happen.
ToolStep ==
    /\ pc = "tools"
    /\ outq = <<>>
    /\ \E i \in { j \in 1..Len(todo) : todo[j].state = "pending" },
          outcome \in ClusterOutcomes, handle_tool_errors \in BOOLEAN :
          LET call  == todo[i].call
              r     == InvokeTool(call.name, call.args, outcome)
              after == [todo EXCEPT ![i] = Ran(@, r)]
              ended == \A j \in 1..Len(after) : after[j].state # "pending"
              escaped == \E j \in 1..Len(after) : after[j].state = "raised"
          IN  /\ invoked' = Append(invoked, call)
              /\ clusterCalls' = clusterCalls \o r.calls
              /\ todo' = after
              /\ IF ~ended
                   THEN UNCHANGED <<pc, failure, messages, outq, produced, response, store>>
                 ELSE IF escaped /\ ~handle_tool_errors
                   THEN /\ RunFails("tool")
                        /\ UNCHANGED <<messages, outq, produced>>
                   ELSE /\ pc' = "agent"
                        /\ messages' = messages \o ToolMessages(after)
                        /\ Streamed([k \in 1..Len(after) |-> ToolMessages(after)[k].content])
                        /\ UNCHANGED <<failure, response, store>>
    /\ UNCHANGED <<now, requestVars, cycle, step_limit_hit, full_response, events, toolVars, dbVars>>

\* stream_tokens: one chunk is read, added to full_response and sent
stream_yield ==
    /\ path = "stream"
    /\ pc \in Running
    /\ outq # <<>>
    /\ LET next == stream_tokens_step(full_response, events, Head(outq)) IN
          /\ full_response' = next.full_response
          /\ events' = next.events
    /\ outq' = Tail(outq)
    /\ UNCHANGED <<store, now, pc, requestVars, messages, todo, cycle, step_limit_hit,
                   failure, invoked, clusterCalls, produced, response, toolVars, dbVars>>

\* the client goes away: the generator is closed where it is suspended
Abandon ==
    /\ path = "stream"
    /\ pc \in Running
    /\ pc' = "abandoned"
    /\ store' = stream_tokens_close(store, session_id, full_response, FALSE)
    /\ UNCHANGED <<now, requestVars, messages, todo, cycle, step_limit_hit, failure,
                   invoked, clusterCalls, outq, produced, full_response, events,
                   response, toolVars, dbVars>>

\* chat_invoke from "final_response = ''" to its end
chat_invoke_return ==
    /\ path = "buffered"
    /\ pc = "finish"
    /\ \E enable_tool_response \in BOOLEAN :
          LET r == Scan(messages) IN
          IF r.final_response # <<>>
            THEN /\ store' = add_message_to_session(store, session_id, "assistant",
                                                    r.final_response, now)
                 /\ response' = ChatResponse(session_id, r.final_response,
                                   IF enable_tool_response THEN r.tools_info ELSE <<>>,
                                   IF enable_tool_response THEN r.tool_responses ELSE <<>>)
                 /\ pc' = "done"
                 /\ UNCHANGED failure
            ELSE \* the return is inside "if final_response": None is returned
                 \* and does not validate as a ChatResponse
                 /\ response' = ErrorResponse
                 /\ pc' = "failed"
                 /\ failure' = "response"
                 /\ UNCHANGED store
    /\ UNCHANGED <<now, requestVars, messages, todo, cycle, step_limit_hit, invoked,
                   clusterCalls, outq, produced, full_response, events, toolVars, dbVars>>

\* stream_tokens after its loop
stream_tokens_end ==
    /\ path = "stream"
    /\ pc = "finish"
    /\ outq = <<>>
    /\ store' = stream_tokens_close(store, session_id, full_response, TRUE)
    /\ pc' = "done"
    /\ UNCHANGED <<now, requestVars, messages, todo, cycle, step_limit_hit, failure,
                   invoked, clusterCalls, outq, produced, full_response, events,
                   response, toolVars, dbVars>>

\* how the body of a streamed response ends for its reader: stream_tokens catches
\* nothing, so an exception of agent.astream leaves the generator and the server
\* drops the connection in the middle of the body, without the end of a
\* complete response (the client of streamlit_app.py gets a RequestException)
StreamEnd ==
    CASE path # "stream"   -> "none"
      [] pc = "done"       -> "complete"
      [] pc = "failed"     -> "cut"
      [] pc = "abandoned"  -> "closed by the client"
      [] OTHER             -> "open"

NoCall == [name |-> "", args |-> <<>>, outcome |-> ""]
NoDbCall == [op |-> "", session_id |-> <<>>, status |-> 0, result |-> <<>>]

InitRun ==
    /\ now = 0
    /\ pc = "idle"
    /\ path = "buffered"
    /\ x_api_key = NoKey
    /\ supplied = FALSE
    /\ oracle = "single"
    /\ session_id = SuppliedId
    /\ before = <<>>
    /\ history = <<>>
    /\ messages = <<>>
    /\ todo = <<>>
    /\ cycle = 0
    /\ step_limit_hit = FALSE
    /\ failure = ""
    /\ invoked = <<>>
    /\ clusterCalls = <<>>
    /\ outq = <<>>
    /\ produced = <<>>
    /\ full_response = <<>>
    /\ events = <<>>
    /\ response = NoResponse
    /\ toolCall = NoCall
    /\ toolResult = Returned(<<>>, <<>>)
    /\ dbCall = NoDbCall
    /\ appended = <<>>

Init ==
    /\ store \in PriorStores
    /\ InitRun

Next ==
    \/ request_rejected
    \/ chat_invoke
    \/ chat_stream
    \/ AgentStep
    \/ OracleFails
    \/ ToolStep
    \/ stream_yield
    \/ Abandon
    \/ chat_invoke_return
    \/ stream_tokens_end

Spec == Init /\ [][Next]_vars

\* the model and the cluster answer (or fail) in the end, the client reads what
\* is sent to it, and the event loop runs a handler that can go on
FairSpec ==
    /\ Spec
    /\ WF_vars(AgentStep \/ OracleFails)
    /\ WF_vars(ToolStep)
    /\ WF_vars(stream_yield)
    /\ WF_vars(chat_invoke_return)
    /\ WF_vars(stream_tokens_end)

(***************************************************************************)
(* The functions of k8s_tools called directly, with every argument and      *)
(* every answer of the cluster.                                             *)
(***************************************************************************)
CallTool ==
    \E tool \in k8s_tools, args \in ToolArgs, outcome \in Outcomes :
        /\ toolCall' = [name |-> tool, args |-> args, outcome |-> outcome]
        /\ toolResult' = InvokeTool(tool, args, outcome)
        /\ UNCHANGED <<store, now, turnVars, dbVars>>

InitTools ==
    /\ store = <<>>
    /\ InitRun

NextTools == CallTool

SpecTools == InitTools /\ [][NextTools]_vars

(***************************************************************************)
(* The store under the requests of two sessions, in any interleaving: the   *)
(* functions of database.py called directly, the session endpoints of       *)
(* main.py, and the first lines of a chat request.  The handlers are        *)
(* coroutines that do not await between their database calls, so each call  *)
(* is one step.  The clock behind func.now() does not run backwards, and    *)
(* several rows can carry one created_at (SQLite's CURRENT_TIMESTAMP counts *)
(* seconds).  The rows of a session are loaded in the order of their        *)
(* insertion, which is the order of store[s].messages.                      *)
(***************************************************************************)
SessionIds == {SuppliedId, GeneratedId}

\* what the requests of session sid write: texts that name the session
TurnsOf(sid) ==
    { [role |-> "user", content |-> <<"hello">> \o sid],
      [role |-> "assistant", content |-> <<"hi">> \o sid] }

AppendedTo(sid) == IF sid \in DOMAIN appended THEN appended[sid] ELSE <<>>

Recorded(sid, turn) ==
    [s \in DOMAIN appended \cup {sid} |->
        IF s = sid THEN Append(AppendedTo(sid), turn) ELSE appended[s]]

DbCall(op, sid, status, result) ==
    [op |-> op, session_id |-> sid, status |-> status, result |-> result]

\* func.now() moves on
Tick ==
    /\ now < MaxClock
    /\ now' = now + 1
    /\ UNCHANGED <<store, dbVars, turnVars, toolVars>>

\* db.add_message_to_session(db_session, session_id, role, content)
AddMessage ==
    \E sid \in SessionIds :
        /\ Len(AppendedTo(sid)) < MaxMessages
        /\ \E turn \in TurnsOf(sid) :
              /\ store' = add_message_to_session(store, sid, turn.role, turn.content, now)
              /\ appended' = Recorded(sid, turn)
              /\ dbCall' = DbCall("add", sid, 0, <<>>)
        /\ UNCHANGED <<now, turnVars, toolVars>>

\* db.get_session_history(db_session, session_id)
ReadHistory ==
    \E sid \in SessionIds :
        /\ dbCall' = DbCall("history", sid, 0, get_session_history(store, sid))
        /\ UNCHANGED <<store, now, appended, turnVars, toolVars>>

\* GET /sessions/{session_id}
get_session ==
    \E sid \in SessionIds :
        /\ dbCall' = IF sid \notin DOMAIN store
                        THEN DbCall("get", sid, 404, <<>>)
                        ELSE DbCall("get", sid, 200, get_session_history(store, sid))
        /\ UNCHANGED <<store, now, appended, turnVars, toolVars>>

\* DELETE /sessions/{session_id}
remove_session ==
    \E sid \in SessionIds :
        LET r == delete_session(store, sid) IN
        /\ store' = r.store
        /\ dbCall' = DbCall("delete", sid, IF r.ok THEN 204 ELSE 404, <<>>)
        /\ appended' = [s \in DOMAIN appended |-> IF s = sid THEN <<>> ELSE appended[s]]
        /\ UNCHANGED <<now, turnVars, toolVars>>

\* the first lines of chat_invoke and of chat_stream: the user message is stored
\* and the history that goes to the agent is read
chat_reads ==
    \E sid \in SessionIds :
        LET turn == [role |-> "user", content |-> <<"hello">> \o sid]
            st   == add_message_to_session(store, sid, "user", turn.content, now)
        IN  /\ Len(AppendedTo(sid)) < MaxMessages
            /\ store' = st
            /\ appended' = Recorded(sid, turn)
            /\ dbCall' = DbCall("chat", sid, 0, get_session_history(st, sid))
            /\ UNCHANGED <<now, turnVars, toolVars>>

InitStore ==
    /\ store = <<>>
    /\ InitRun

NextStore ==
    \/ Tick
    \/ AddMessage
    \/ ReadHistory
    \/ get_session
    \/ remove_session
    \/ chat_reads

SpecStore == InitStore /\ [][NextStore]_vars

(***************************************************************************)
(* Chat requests one after the other: what each writes to the store.  The   *)
(* agent's run between the first lines of a handler and its last writes     *)
(* nothing to the store; it is kept here as its result only.                *)
(***************************************************************************)
\* the user turns a session holds: one per request made for it
Attempts(sid) ==
    Cardinality({ i \in 1..Len(get_session_history(store, sid)) :
                     get_session_history(store, sid)[i].role = "user" })

\* the values final_response and full_response can have after the run: a text
\* of the model, the step-limit text, nothing, or (final_response only) the
\* content of an assistant turn of the history
FinalTexts(h) ==
    OracleTexts \cup {StepLimitText}
        \cup { h[i].content : i \in { j \in 1..Len(h) : h[j].role = "assistant" } }

\* chat_request.message of these requests; the handlers store it as it is
TurnMessages == { m \in UserMessages : Head(m) = "yes," }

\* the first lines of chat_invoke and of chat_stream, for a request made when
\* the one before it has ended; a generated id is a new one
ChatBegins ==
    /\ pc \in {"idle"} \cup Ended
    /\ \E p \in {"buffered", "stream"}, sup \in BOOLEAN, message \in TurnMessages :
          LET sid == RequestSessionId(sup)
              st  == add_message_to_session(store, sid, "user", message, now)
          IN  /\ Attempts(sid) < (IF sup THEN MaxTurns ELSE 1)
              /\ path' = p
              /\ supplied' = sup
              /\ session_id' = sid
              /\ before' = get_session_history(store, sid)
              /\ store' = st
              /\ history' = get_session_history(st, sid)
              /\ pc' = "agent"
    /\ UNCHANGED <<now, x_api_key, oracle, messages, todo, cycle, step_limit_hit, failure,
                   invoked, clusterCalls, outq, produced, full_response, events,
                   response, toolVars, dbVars>>

\* the end of the request: chat_invoke stores final_response when it is not
\* empty, and nothing when the agent raised; stream_tokens stores full_response
\* when its loop has run out, and nothing when the run failed or the client
\* went away
ChatEnds ==
    /\ pc = "agent"
    /\ \E text \in FinalTexts(history), completed \in BOOLEAN :
          IF path = "buffered"
            THEN IF completed /\ text # <<>>
                   THEN /\ store' = add_message_to_session(store, session_id,
                                                            "assistant", text, now)
                        /\ pc' = "done"
                   ELSE /\ pc' = "failed"
                        /\ UNCHANGED store
            ELSE /\ store' = stream_tokens_close(store, session_id, text, completed)
                 /\ pc' \in (IF completed THEN {"done"} ELSE {"failed", "abandoned"})
    /\ UNCHANGED <<now, requestVars, messages, todo, cycle, step_limit_hit, failure,
                   invoked, clusterCalls, outq, produced, full_response, events,
                   response, toolVars, dbVars>>

InitTurns ==
    /\ store = <<>>
    /\ InitRun

NextTurns ==
    \/ Tick
    \/ ChatBegins
    \/ ChatEnds

SpecTurns == InitTurns /\ [][NextTurns]_vars

(***************************************************************************)
(* Properties.                                                              *)
(***************************************************************************)
\* the user-authored turns of the working history, the new message included
UserTurns == { i \in 1..Len(messages) : messages[i].type = "human" }
SomeUserTurnContains(phrase) ==
    \E i \in UserTurns : Contains(messages[i].content, phrase)
\* the most recent user-authored turn
LastUserTurn ==
    LET last == CHOOSE i \in UserTurns : \A j \in UserTurns : j <= i IN messages[last].content
LastUserTurnContains(phrase) ==
    UserTurns # {} /\ Contains(LastUserTurn, phrase)

\* the delete_* function behind a cluster call, if any
DeleteToolsOf(api) == { t \in DOMAIN DeleteTools : DeleteTools[t].api = api }
\* the cluster calls of the run that delete `name` through `tool`
DeleteCalls(tool, name) ==
    { k \in 1..Len(clusterCalls) :
        clusterCalls[k].api = DeleteTools[tool].api /\ clusterCalls[k].name = name }
\* the calls dispatched in the run that ask `tool` to delete `name` with confirm=true
ConfirmedProposals(tool, name) ==
    { k \in 1..Len(invoked) :
        /\ invoked[k].name = tool
        /\ invoked[k].args.name = name
        /\ invoked[k].args.confirm }

PodPhrase == ConfirmationPhrase("delete_kubernetes_pod", "nginx-1")

\* C1: a mutating operation changes the cluster only if some user turn of the
\* working history holds the exact confirmation phrase for that operation and
\* target, whatever the model proposes (confirm=true included).  Only the
\* delete_* functions have such a phrase.
C1_NoChangeWithoutPhrase ==
    \A k \in 1..Len(clusterCalls) :
        clusterCalls[k].api \in MutatingApis =>
            \E t \in DeleteToolsOf(clusterCalls[k].api) :
                SomeUserTurnContains(ConfirmationPhrase(t, clusterCalls[k].name))

\* C2: a gated operation (a delete_*) executes only if the most recent user turn
\* of the working history holds the confirmation phrase verbatim.
C2_OnlyAfterPhraseInLastUserTurn ==
    \A t \in DOMAIN DeleteTools, n \in Names :
        DeleteCalls(t, n) # {} => LastUserTurnContains(ConfirmationPhrase(t, n))

\* the user turn of this request directly follows an assistant turn that asks for
\* the phrase to delete pod nginx-1, and holds that phrase
ConfirmsAfterDenial ==
    /\ pc # "idle"
    /\ Len(history) >= 2
    /\ history[Len(history) - 1].role = "assistant"
    /\ Contains(history[Len(history) - 1].content,
                <<"Please confirm by saying", "'">> \o PodPhrase)
    /\ Contains(history[Len(history)].content, PodPhrase)

RECURSIVE CallsOf(_)
CallsOf(msgs) ==
    IF msgs = <<>> THEN <<>> ELSE Head(msgs).tool_calls \o CallsOf(Tail(msgs))
Proposed == CallsOf(SubSeq(messages, Len(history) + 1, Len(messages)))

FinalAnswer == IF path = "buffered" THEN response.response ELSE full_response

\* the model has proposed the deletion of pod nginx-1 in this run
DeletionProposed ==
    \E k \in 1..Len(Proposed) :
        Proposed[k].name = "delete_kubernetes_pod" /\ Proposed[k].args.name = "nginx-1"

\* C4: a request to delete pod nginx-1 in a turn with no prior confirmation never
\* reaches the cluster, and the turn in which the deletion was proposed ends
\* with an answer asking for the phrase "yes, delete pod nginx-1".
C4_DeleteRequestIsDenied ==
    (/\ pc # "idle"
     /\ history[Len(history)].content = <<"delete", "pod", "nginx-1", "in", "default">>
     /\ ~SomeUserTurnContains(PodPhrase))
        => /\ DeleteCalls("delete_kubernetes_pod", "nginx-1") = {}
           /\ (pc = "done" /\ DeletionProposed) => Contains(FinalAnswer, PodPhrase)

\* the replies the model has given in this run
Replies == { i \in (Len(history) + 1)..Len(messages) : messages[i].type = "ai" }

\* the run has ended at its step limit with the degraded answer, which the
\* buffered caller gets as a normal response
DegradedAnswer ==
    /\ pc \in {"finish", "done", "abandoned"}
    /\ failure = ""
    /\ messages[Len(messages)] = AIMessage(StepLimitText, <<>>)
    /\ (pc = "done" /\ path = "buffered") =>
          /\ response.status = 200
          /\ response.response = StepLimitText

TextsSent == [i \in 1..(Len(events) - 1) |-> events[i + 1].content]

\* C8: an assistant turn is stored only when the whole turn has completed, and
\* then it is the whole answer: while the run goes on, and after a run that
\* failed or a stream the client abandoned, the session holds what it held when
\* the agent was started.
C8_AssistantTurnOnlyWhenComplete ==
    pc # "idle" =>
        LET h == get_session_history(store, session_id) IN
        IF pc = "done"
          THEN /\ \/ h = history
                  \/ h = Append(history, [role |-> "assistant", content |-> FinalAnswer])
               /\ path = "stream" => (outq = <<>> /\ full_response = Concat(produced))
               /\ path = "buffered" => response.response = final_response(messages)
          ELSE h = history

\* C8 witness: a stream abandoned after text was sent and a tool had run
C8_Witness ==
    /\ pc = "abandoned"
    /\ full_response # <<>>
    /\ invoked # <<>>
    /\ get_session_history(store, session_id) = history

\* C9: the concatenation of the streamed fragments equals the text the buffered
\* path returns for the same replies of the model and the same tool results.
C9_StreamEqualsBuffered ==
    (path = "stream" /\ pc = "done") => Concat(TextsSent) = final_response(messages)

\* C10: a streamed response starts with the one session-id event, which carries
\* the session id the turn is stored under (the generated one when the client
\* gave none); the text fragments follow in the order they were produced, and
\* the stream ends when all of them have been sent.
C10_SessionEventFirst ==
    (path = "stream" /\ pc # "idle") =>
        /\ Len(events) >= 1
        /\ events[1] = SessionEvent(session_id)
        /\ session_id = (IF supplied THEN SuppliedId ELSE GeneratedId)
        /\ session_id \in DOMAIN store
        /\ \A i \in 2..Len(events) : events[i].kind = "text"
        /\ TextsSent = SubSeq(produced, 1, Len(events) - 1)
        /\ TextsSent \o outq = produced
        /\ pc = "done" => TextsSent = produced

\* C10 witness: a stream for a client that gave no session id has ended after
\* three fragments
C10_Witness ==
    /\ path = "stream"
    /\ pc = "done"
    /\ ~supplied
    /\ events[1] = SessionEvent(GeneratedId)
    /\ Len(events) = 4
    /\ TextsSent = produced

\* the loop of a buffered turn has run to its end: agent.ainvoke has returned and
\* chat_invoke has ended
BufferedLoopCompleted ==
    /\ path = "buffered"
    /\ pc \in Ended
    /\ failure \notin {"oracle", "tool"}

\* C14: every buffered turn whose loop completes returns one structured
\* response with the session id, the final text and the trace, and has stored
\* the assistant turn, also when the final answer of the Oracle is empty; the
\* trace lists are empty unless they were asked for.
C14_BufferedTurnReturnsResponse ==
    BufferedLoopCompleted =>
        /\ response.status = 200
        /\ response.session_id = session_id
        /\ response.tools_info \in {<<>>, Scan(messages).tools_info}
        /\ response.tool_response \in {<<>>, Scan(messages).tool_responses}
        /\ get_session_history(store, session_id)
              = Append(history, [role |-> "assistant", content |-> response.response])

ToolResults ==
    { i \in (Len(history) + 1)..Len(messages) : messages[i].type = "tool" }

\* C16: the calls the Oracle proposes in a turn run one at a time in the order
\* proposed, their results are appended in that order, and every result of a
\* reply is appended before the Oracle is consulted again.
C16_CallsRunInOrder ==
    /\ \A k \in 1..Len(invoked) : invoked[k].id = k
    /\ \A i, j \in ToolResults :
          i < j => messages[i].tool_call_id < messages[j].tool_call_id
    /\ pc = "agent" =>
          { messages[i].tool_call_id : i \in ToolResults } = { Proposed[k].id : k \in 1..Len(Proposed) }

\* C18: the store is written only at the end of a turn: while the loop runs,
\* and after a turn that failed, the stored history of the session is the one
\* from before the turn, the new user turn not included.
C18_StoreWrittenOnlyAtEnd ==
    pc \in Running \cup {"failed"} =>
        get_session_history(store, session_id) = before

Rejected == pc = "idle" /\ response # NoResponse

\* C21: a request without "message", or with an x-api-key that is neither
\* ADMIN_API_KEY nor USER_API_KEY, is answered 401 or 422 and leaves
\* everything as it was: no message reaches the agent, no tool is invoked, no
\* cluster call is made, nothing is sent, and the store keeps its sessions and
\* turns; and the agent runs only for a request that carried one of the two keys
C21_RejectedRequestChangesNothing ==
    /\ [](Rejected =>
            /\ response.status \in {401, 422}
            /\ messages = <<>> /\ todo = <<>> /\ cycle = 0
            /\ invoked = <<>> /\ clusterCalls = <<>>
            /\ produced = <<>> /\ events = <<>>
            /\ store \in PriorStores)
    /\ [](pc # "idle" => x_api_key \in {ADMIN_API_KEY, USER_API_KEY})
    /\ [][(pc' = "idle") =>
            /\ store' = store
            /\ <<messages', invoked', clusterCalls', produced'>>
                   = <<messages, invoked, clusterCalls, produced>>]_vars

\* C21 witness: a request with a key that is not one of the two was answered
\* 401 while the store holds a session with turns
C21_Witness ==
    /\ Rejected
    /\ response.status = 401
    /\ x_api_key = "wrong-key"
    /\ \E sid \in DOMAIN store : store[sid].messages # <<>>

\* the messages the agent added in this turn, after the new user message
ThisTurn == SubSeq(messages, Len(history) + 1, Len(messages))

\* C23: the text a buffered turn returns and stores is the content of the last
\* assistant message with content among the messages the agent added in this
\* turn, and never comes from the history
C23_ResponseIsOfThisTurn ==
    (path = "buffered" /\ pc = "done") =>
        /\ final_response(ThisTurn) # <<>>
        /\ response.response = final_response(ThisTurn)
        /\ get_session_history(store, session_id)
              = Append(history, [role |-> "assistant", content |-> final_response(ThisTurn)])

\* C24: when stream_tokens has run to its end, the session holds, after the
\* turns it held when the agent was started, one assistant turn whose content is
\* the concatenation of the text fragments sent after the session-id event, in
\* the order they were sent; when that concatenation is empty it holds no new
\* turn
C24_StoredStreamIsWhatWasSent ==
    (path = "stream" /\ pc = "done") =>
        /\ events # <<>> /\ Head(events) = SessionEvent(session_id)
        /\ \A i \in 2..Len(events) : events[i].kind = "text"
        /\ get_session_history(store, session_id) =
              IF Concat(TextsSent) = <<>>
                THEN history
                ELSE Append(history, [role |-> "assistant", content |-> Concat(TextsSent)])

\* C24 witness: a streamed turn that sent the text of a reply, then the result
\* of a tool, then the text of the final reply, has ended and its assistant turn
\* is stored
C24_Witness ==
    /\ path = "stream"
    /\ pc = "done"
    /\ invoked # <<>>
    /\ Len(TextsSent) >= 3
    /\ \E i, j \in 1..Len(TextsSent) : TextsSent[i] # TextsSent[j]
    /\ Len(get_session_history(store, session_id)) = Len(history) + 1

\* the ids of the ToolMessages of this turn, in the order the scan meets them
RECURSIVE ResultIds(_)
ResultIds(msgs) ==
    IF msgs = <<>> THEN <<>>
    ELSE (IF Head(msgs).type = "tool" THEN <<Head(msgs).tool_call_id>> ELSE <<>>)
            \o ResultIds(Tail(msgs))

\* C25: in the trace of a buffered turn the invocations are the calls the model
\* proposed, in the order proposed; the results are in the order the tools
\* produced them (the order in which the calls ran and returned); each result
\* carries the name of the invocation with its tool_call_id, and an id that no
\* recorded invocation has is given the name "unknown_tool"
C25_TraceOrderAndLabels ==
    (path = "buffered" /\ pc = "done") =>
        LET r == Scan(messages) IN
        /\ r.tools_info = [k \in 1..Len(Proposed) |->
                              [name |-> Proposed[k].name, args |-> Proposed[k].args]]
        /\ Len(r.tool_responses) = Len(invoked)
        /\ ResultIds(ThisTurn) = [k \in 1..Len(invoked) |-> invoked[k].id]
        /\ \A k \in 1..Len(r.tool_responses) :
              \E j \in 1..Len(Proposed) :
                  /\ Proposed[j].id = ResultIds(ThisTurn)[k]
                  /\ r.tool_responses[k].name = Proposed[j].name
        /\ \A id \in 0..(Len(Proposed) + 1) :
              (\A j \in 1..Len(Proposed) : Proposed[j].id # id)
                  => ToolNameOf(r.tool_call_id_map, id) = "unknown_tool"

(***************************************************************************)
(* Properties of the functions of k8s_tools called directly (SpecTools).    *)
(***************************************************************************)
Called == toolCall # NoCall
\* the function answered with its confirmation prompt and left the cluster alone
Denied ==
    /\ ~toolResult.raised
    /\ toolResult.calls = <<>>
    /\ Len(toolResult.text) > 0
    /\ Head(toolResult.text) = "Confirmation required"

C7_ToolsNeverRaise ==
    Called => ~toolResult.raised

\* the calls of `tool` for the target `name` that carry no confirmation
Unconfirmed(tool, name) == { a \in ToolArgs : a.name = name /\ ~a.confirm }

\* C17 as stated: the denial of a proposal is the same text each time, and that
\* text is given by the name of the operation and the name of the target alone.
C17_DenialFromNameAlone ==
    (Called /\ Denied) =>
        \A a \in Unconfirmed(toolCall.name, toolCall.args.name), o \in Outcomes :
            InvokeTool(toolCall.name, a, o) = toolResult

\* C17 amended: a delete_* operation called without confirmation is denied with
\* the same text each time, whatever the cluster would answer and whatever the
\* other arguments are; the text is given by the name of the operation, the name
\* of the target and, for a namespaced resource, the namespace argument.
C17_DenialIsDeterministic ==
    (Called /\ toolCall.name \in DOMAIN DeleteTools /\ ~toolCall.args.confirm) =>
        /\ Denied
        /\ toolResult.text = ConfirmationPrompt(toolCall.name, toolCall.args.name,
                                                toolCall.args.namespace)
        /\ \A a \in Unconfirmed(toolCall.name, toolCall.args.name), o \in Outcomes :
              (DeleteTools[toolCall.name].namespaced
                  => a.namespace = toolCall.args.namespace)
                    => InvokeTool(toolCall.name, a, o) = toolResult

\* C17 witness: delete_kubernetes_secret was called without confirmation for a
\* secret outside the default namespace, with a cluster that cannot be reached,
\* and has answered with its prompt
C17_Witness ==
    /\ toolCall.name = "delete_kubernetes_secret"
    /\ toolCall.args.namespace # DefaultNamespace
    /\ ~toolCall.args.confirm
    /\ toolCall.outcome = "exc"
    /\ Denied
    /\ Contains(toolResult.text, <<"in namespace", "'", toolCall.args.namespace>>)

\* the API methods that delete a resource
DeleteApis == {DeleteTools[t].api : t \in DOMAIN DeleteTools}

\* C22: for each of the eight delete_* functions, a call with confirm not true
\* makes no API call and returns a text that starts with "Confirmation
\* required"; an API method that deletes is called only by a delete_* function
\* called with confirm true, it is the method of that function, and it is
\* called at most once in the call
C22_DeleteOnlyWhenConfirmTrue ==
    Called =>
        /\ (toolCall.name \in DOMAIN DeleteTools /\ ~toolCall.args.confirm) =>
              /\ ~toolResult.raised
              /\ toolResult.calls = <<>>
              /\ toolResult.text # <<>>
              /\ Head(toolResult.text) = "Confirmation required"
        /\ \A k \in 1..Len(toolResult.calls) :
              toolResult.calls[k].api \in DeleteApis =>
                  /\ toolCall.name \in DOMAIN DeleteTools
                  /\ toolCall.args.confirm
                  /\ toolResult.calls[k].api = DeleteTools[toolCall.name].api
                  /\ toolResult.calls[k].name = toolCall.args.name
                  /\ Len(toolResult.calls) = 1

\* C22 witness: delete_kubernetes_ingress was called without confirm, for a
\* resource the cluster would have deleted, and answered with the prompt and no
\* API call
C22_Witness ==
    /\ toolCall.name = "delete_kubernetes_ingress"
    /\ ~toolCall.args.confirm
    /\ toolCall.outcome = "ok"
    /\ toolResult.calls = <<>>
    /\ toolResult.text = ConfirmationPrompt("delete_kubernetes_ingress",
                                            toolCall.args.name, toolCall.args.namespace)

(***************************************************************************)
(* Properties of the store under the requests of two sessions (SpecStore).  *)
(***************************************************************************)
\* the last call read the turns of a session
ReadCall ==
    \/ dbCall.op \in {"history", "chat"}
    \/ dbCall.op = "get" /\ dbCall.status = 200

\* C11: reading a session returns exactly the turns appended to it, roles and
\* contents, in the order they were appended, also when turns carry the same
\* created_at.
C11_HistoryIsAppendOrder ==
    /\ \A sid \in SessionIds : get_session_history(store, sid) = AppendedTo(sid)
    /\ ReadCall => dbCall.result = AppendedTo(dbCall.session_id)

\* C11 witness: a read has returned the two turns of a session that were appended
\* within one tick of the clock, the assistant's before the user's
C11_Witness ==
    /\ dbCall.op = "history"
    /\ dbCall.session_id \in DOMAIN store
    /\ Len(dbCall.result) = 2
    /\ dbCall.result[1].role = "assistant"
    /\ dbCall.result[2].role = "user"
    /\ \A k \in 1..2 : store[dbCall.session_id].messages[k].created_at = now

\* the step appends a turn to session sid
AppendsTo(sid) == Len(AppendedTo(sid)') = Len(AppendedTo(sid)) + 1

\* the step is a read of the history of sid
ReadsHistoryOf(sid) ==
    /\ dbCall' # dbCall
    /\ dbCall'.op = "history"
    /\ dbCall'.session_id = sid

\* C12: reading the history of an unknown session id returns the empty sequence
\* and creates nothing; the first append for an id creates exactly one session
\* record, for that id; a later append for the id adds its turn to that record
\* and creates no other.
C12_SessionCreatedOnFirstWrite ==
    /\ [](\A sid \in SessionIds :
            /\ sid \in DOMAIN store <=> AppendedTo(sid) # <<>>
            /\ sid \in DOMAIN store =>
                  /\ Len(store[sid].messages) = Len(AppendedTo(sid))
                  /\ store[sid].created_at = store[sid].messages[1].created_at)
    /\ [][\A sid \in SessionIds :
            /\ (ReadsHistoryOf(sid) /\ sid \notin DOMAIN store) =>
                  (dbCall'.result = <<>> /\ store' = store)
            /\ (AppendsTo(sid) /\ sid \notin DOMAIN store) =>
                  /\ DOMAIN store' = DOMAIN store \cup {sid}
                  /\ Len(store'[sid].messages) = 1
                  /\ \A s \in DOMAIN store : store'[s] = store[s]
            /\ (AppendsTo(sid) /\ sid \in DOMAIN store) =>
                  /\ DOMAIN store' = DOMAIN store
                  /\ store'[sid].created_at = store[sid].created_at
                  /\ Len(store'[sid].messages) = Len(store[sid].messages) + 1
                  /\ SubSeq(store'[sid].messages, 1, Len(store[sid].messages))
                        = store[sid].messages]_vars

\* C12 witness: a second turn has been appended to a session a tick after the
\* first, while the other session id is still unknown and a read of it gave
\* nothing
C12_Witness ==
    /\ dbCall.op = "add"
    /\ dbCall.session_id \in DOMAIN store
    /\ Len(store[dbCall.session_id].messages) = 2
    /\ store[dbCall.session_id].created_at < store[dbCall.session_id].messages[2].created_at
    /\ DOMAIN store = {dbCall.session_id}

\* the step is the call `op` for session sid
Calls(op, sid) ==
    /\ dbCall' # dbCall
    /\ dbCall'.op = op
    /\ dbCall'.session_id = sid

\* C13: deleting an existing session removes it with all of its turns and
\* answers 204; reading or deleting a session id that does not exist, one
\* already deleted included, answers 404 and changes nothing stored; an append
\* to a deleted id starts a session that holds only the new turn.
C13_DeleteAndNotFound ==
    /\ [](dbCall.op \in {"get", "delete"} => dbCall.status \in {200, 204, 404})
    /\ [][\A sid \in SessionIds :
            /\ (Calls("delete", sid) /\ sid \in DOMAIN store) =>
                  /\ dbCall'.status = 204
                  /\ sid \notin DOMAIN store'
                  /\ get_session_history(store', sid) = <<>>
                  /\ \A s \in DOMAIN store \ {sid} : s \in DOMAIN store' /\ store'[s] = store[s]
            /\ (Calls("delete", sid) /\ sid \notin DOMAIN store) =>
                  (dbCall'.status = 404 /\ store' = store)
            /\ (Calls("get", sid) /\ sid \notin DOMAIN store) =>
                  (dbCall'.status = 404 /\ store' = store)
            /\ (Calls("get", sid) /\ sid \in DOMAIN store) =>
                  (dbCall'.status = 200 /\ store' = store)
            /\ (AppendsTo(sid) /\ sid \notin DOMAIN store) =>
                  get_session_history(store', sid)
                      = <<AppendedTo(sid)'[Len(AppendedTo(sid)')]>>]_vars

\* C13 witness: a session was deleted and deleting it again has answered 404,
\* the other session still holding its turns
C13_Witness ==
    /\ dbCall.op = "delete"
    /\ dbCall.status = 404
    /\ dbCall.session_id \in DOMAIN appended
    /\ dbCall.session_id \notin DOMAIN store
    /\ \E s \in DOMAIN store : Len(store[s].messages) >= 1

\* C20: the sessions are isolated under every interleaving of the requests: a
\* call for one session leaves every other session as it was (its record, its
\* turns and their order), and the history a chat request reads for its session,
\* which is what the agent is given, holds the turns of that session only.
C20_SessionsAreIsolated ==
    /\ [](ReadCall =>
            /\ \A k \in 1..Len(dbCall.result) : dbCall.result[k] \in TurnsOf(dbCall.session_id)
            /\ dbCall.result = AppendedTo(dbCall.session_id))
    /\ [][\A other \in SessionIds \ {dbCall'.session_id} :
            /\ other \in DOMAIN store' <=> other \in DOMAIN store
            /\ other \in DOMAIN store => store'[other] = store[other]
            /\ get_session_history(store', other) = get_session_history(store, other)]_vars

\* C20 witness: a chat request has stored its message and read the history of
\* its session, two turns, while the other session holds two turns of its own
C20_Witness ==
    /\ dbCall.op = "chat"
    /\ Len(dbCall.result) = 2
    /\ \E other \in DOMAIN store \ {dbCall.session_id} : Len(store[other].messages) = 2

(***************************************************************************)
(* Properties of the requests made one after the other (SpecTurns).         *)
(***************************************************************************)
Roles(h) == [i \in 1..Len(h) |-> h[i].role]

\* C26: with the requests of a session made one after the other, at every
\* moment every assistant turn of a stored history comes right after a user
\* turn, whatever turns ended well, failed or were abandoned before; and a
\* request adds to the history of its session one user turn and, after it, at
\* most one assistant turn, and nothing to another session
C26_AssistantFollowsUser ==
    /\ [](\A sid \in DOMAIN store :
            LET h == get_session_history(store, sid) IN
            \A i \in 1..Len(h) :
                h[i].role = "assistant" => (i > 1 /\ h[i - 1].role = "user"))
    /\ [](pc # "idle" =>
            LET h == get_session_history(store, session_id) IN
            /\ Len(history) = Len(before) + 1
            /\ SubSeq(history, 1, Len(before)) = before
            /\ history[Len(history)].role = "user"
            /\ \/ h = history
               \/ /\ pc = "done"
                  /\ Len(h) = Len(history) + 1
                  /\ SubSeq(h, 1, Len(history)) = history
                  /\ h[Len(h)].role = "assistant")
    /\ [][\A sid \in DOMAIN store :
            sid # session_id' =>
                (sid \in DOMAIN store' /\ store'[sid] = store[sid])]_vars

\* C26 witness: after a request that stored no assistant turn, a second request
\* for the session has been answered at a later time of the clock, and the
\* session holds user, user, assistant
C26_Witness ==
    /\ pc = "done"
    /\ now > 0
    /\ session_id = SuppliedId
    /\ Roles(before) = <<"user">>
    /\ Roles(get_session_history(store, session_id)) = <<"user", "user", "assistant">>

====
